---- MODULE Spec2Model ----
(***************************************************************************)
(* Model of the log tailing reader (OTelLogReader / OTelMetricsReader), of  *)
(* the session state kept by the App component of claude-companion, and of *)
(* the hook script that writes the session logs.                           *)
(*                                                                         *)
(* A file is a sequence of one-character strings.  The producer is another *)
(* process: it appends to the file at any time, also between two system    *)
(* calls of one synchronous handler of the reader.                         *)
(***************************************************************************)
EXTENDS Integers, Sequences, FiniteSets, TLC

\* ---------------------------------------------------------------- bounds
MaxFile == 3
MaxPending == 2
MaxShrinks == 1
MaxLines == 2
MaxStart == 2
MaxRaw == 4
MaxRecords == 2
MaxTel == 2
MaxCount == 2

\* ------------------------------------------------------------ characters
NL == "\n"
SP == " "
\* a byte of the zero-filled Buffer.alloc() buffer that readSync left alone
NUL == "0"
Alphabet == {"a", SP, NL}

\* ----------------------------------------------------------------- paths
LogPath == "log.jsonl"
AbsentPath == "absent.jsonl"
Paths == {LogPath, AbsentPath}
NoPath == "null"

SessionIds == {"s1", "s2"}
NoId == "null"
NoSession == [sessionId |-> NoId, startTime |-> 0]
NoReader == [sessionId |-> NoId, cursor |-> 0]
NoClosedReader ==
  [sessionId |-> NoId, cursor |-> 0, listeners |-> FALSE, isOpen |-> FALSE]

NoError == "none"
AlreadyOpen == "File is already open"
ENOENT == "ENOENT"

VARIABLES
  file,         \* content of the file at LogPath
  exists,       \* the file at LogPath exists (AbsentPath never does)
  shrinks,      \* how many times the file was truncated
  below,        \* the file has been shorter than the cursor since openLog
  logPath,      \* OTelLogReader.logPath
  isOpen,       \* OTelLogReader.isOpen
  fileWatcher,  \* OTelLogReader.fileWatcher is not null
  fileSize,     \* OTelLogReader.fileSize, the tailing cursor
  pending,      \* change notifications queued for the watch callback
  emitted,      \* what the reader emitted since openLog last passed its guard
  raised,       \* error thrown out of the last reader call, or NoError
  opens,        \* successful openLog calls so far, counted up to 2
  last,         \* the last step taken, with what its read did
  \* --- the log directory, as the App component sees it
  logLines,     \* number of lines of <session>.jsonl, 0 when there is no file
  meta,         \* startTime in <session>.meta, 0 when there is no file
  alive,        \* the process that <session>.meta names is running
  \* --- the App component and its useEvents hook
  providedSessionId,  \* the sessionId prop, or NoId
  mounted,            \* the session initialisation effect has run
  session,            \* useState session
  pendingNewSession,  \* useState pendingNewSession
  error,              \* useState error
  events,             \* useEvents events
  connectionStatus,   \* useEvents connectionStatus
  hookReader,         \* the LogReader of the current useEvents effect
  closedReader,       \* the LogReader the last effect cleanup let go
  discovered,         \* what the last discoverSessions call returned
  \* --- the hook script Claude Code runs for every hook event
  hookScript,         \* which hook script is installed
  jqInstalled,        \* command -v jq succeeds
  rawEvents,          \* the records Claude Code gave the hook on stdin
  sessionLog,         \* the records the hook wrote to <session>.jsonl
  \* --- handleLine of an OTelLogReader constructed for session ReaderSession
  otelLine,           \* the line handleLine was last called with
  otelEvents,         \* the 'event' signals of that call, in order
  otelParseErrors,    \* the 'parse-error' signals of that call
  otelRaised,         \* what that call threw to its caller, or NoError
  otelMalformedSeen,  \* an earlier line of the file yielded no parsed record
  \* --- the telemetry files of the sessions and the useOtelMetrics hook
  otelLogsFile,       \* records in otel/<session>-logs.jsonl, NoFile if absent
  otelMetricsFile,    \* records in otel/<session>-metrics.jsonl, or NoFile
  logReader,          \* the OTelLogReader of the current effect, if open
  metricsReader,      \* the OTelMetricsReader of the current effect, if open
  metrics,            \* useState metrics
  isConnected         \* useState isConnected

readerVars == <<logPath, isOpen, fileWatcher, fileSize>>
tailVars == <<file, exists, shrinks, below, logPath, isOpen, fileWatcher,
              fileSize,
              pending, emitted, raised, opens>>
dirVars == <<logLines, meta, alive>>
appVars == <<providedSessionId, mounted, session, pendingNewSession, error,
             events, connectionStatus, hookReader, closedReader, discovered>>
otlpVars == <<otelLine, otelEvents, otelParseErrors, otelRaised,
              otelMalformedSeen>>
telVars == <<otelLogsFile, otelMetricsFile, logReader, metricsReader, metrics,
             isConnected>>
scriptVars == <<hookScript, jqInstalled, rawEvents, sessionLog, otlpVars>>
hookVars == <<scriptVars, telVars>>
vars == <<file, exists, shrinks, below, logPath, isOpen, fileWatcher, fileSize,
          pending,
          emitted, raised, opens, last, logLines, meta, alive,
          providedSessionId, mounted, session, pendingNewSession, error,
          events, connectionStatus, hookReader, closedReader, discovered,
          hookScript, jqInstalled, rawEvents, sessionLog, otelLine,
          otelEvents, otelParseErrors, otelRaised, otelMalformedSeen,
          otelLogsFile, otelMetricsFile, logReader, metricsReader, metrics,
          isConnected>>

\* ------------------------------------------------------- pure functions
Min(a, b) == IF a < b THEN a ELSE b

\* String.prototype.split('\n')
RECURSIVE Split(_)
Split(s) ==
  IF \A i \in 1..Len(s) : s[i] # NL
  THEN <<s>>
  ELSE LET i == CHOOSE k \in 1..Len(s) :
                  s[k] = NL /\ \A j \in 1..(k - 1) : s[j] # NL
       IN <<SubSeq(s, 1, i - 1)>> \o Split(SubSeq(s, i + 1, Len(s)))

IsSpace(c) == c \in {SP, NL}

\* String.prototype.trim()
RECURSIVE TrimLeft(_)
TrimLeft(s) ==
  IF s # <<>> /\ IsSpace(Head(s)) THEN TrimLeft(Tail(s)) ELSE s

RECURSIVE TrimRight(_)
TrimRight(s) ==
  IF s # <<>> /\ IsSpace(s[Len(s)])
  THEN TrimRight(SubSeq(s, 1, Len(s) - 1))
  ELSE s

Trim(s) == TrimRight(TrimLeft(s))

\* content.split('\n').filter(line => line.trim())
FilterLines(content) == SelectSeq(Split(content), LAMBDA l : Trim(l) # <<>>)

LineSignal(l) == [kind |-> "line", text |-> l]
OpenSignal == [kind |-> "open", text |-> <<>>]
ErrorSignal == [kind |-> "error", text |-> <<>>]

\* handleLine: a blank line is skipped, any other is handed to the parser
HandleLine(out, line) ==
  IF Trim(line) = <<>> THEN out ELSE Append(out, LineSignal(line))

RECURSIVE HandleLines(_, _)
HandleLines(out, lines) ==
  IF lines = <<>> THEN out
  ELSE HandleLines(HandleLine(out, Head(lines)), Tail(lines))

Zeros(n) == [i \in 1..n |-> NUL]

\* the Buffer after readSync(fd, buffer, 0, want, from) returned got bytes
ReadBuffer(f, from, want, got) ==
  SubSeq(f, from + 1, from + got) \o Zeros(want - got)

\* ------------------------------------------------------------ the reader
Step(op, io, from, want, got) ==
  [op |-> op, io |-> io, from |-> from, want |-> want, got |-> got]

\* fs.existsSync(path)
ExistsSync(path) == path = LogPath /\ exists

\* a reader that stores the length of the buffer instead of the new size
NextCursorBufferLength(cursor, newSize, got) == newSize - cursor

\* the cursor readNewContent stores after reading got of the want bytes
\* between cursor and newSize
NextCursor(cursor, newSize, got) == newSize

\* a reader that assigns the cursor before it reads
CursorBeforeRead(io, cursor, newSize) ==
  IF io = "readFail" /\ newSize > cursor THEN newSize ELSE cursor

\* the cursor after statSync or readSync threw: the assignment of line 96
\* is not reached and the catch block assigns nothing
CursorOnThrow(io, cursor, newSize) == cursor

\* the App component is not mounted and the log directory is empty
AppIdle ==
  /\ logLines = [s \in SessionIds |-> 0]
  /\ meta = [s \in SessionIds |-> 0]
  /\ alive = [s \in SessionIds |-> TRUE]
  /\ providedSessionId = NoId
  /\ mounted = FALSE
  /\ session = NoSession
  /\ pendingNewSession = NoSession
  /\ error = NoError
  /\ events = <<>>
  /\ connectionStatus = "disconnected"
  /\ hookReader = NoReader
  /\ closedReader = NoClosedReader
  /\ discovered = {}

\* no line yet
NoLine == [json |-> FALSE, session |-> "null", records |-> <<>>]

OtlpIdle ==
  /\ otelLine = NoLine
  /\ otelEvents = <<>>
  /\ otelParseErrors = 0
  /\ otelRaised = NoError
  /\ otelMalformedSeen = FALSE

\* a telemetry file that does not exist
NoFile == -1

\* initialMetrics: the counters of the summary the model follows
InitialMetrics == [apiRequestCount |-> 0, linesAdded |-> 0]

\* no collector has written a file and useOtelMetrics has no reader
TelIdle ==
  /\ otelLogsFile = [s \in SessionIds |-> NoFile]
  /\ otelMetricsFile = [s \in SessionIds |-> NoFile]
  /\ logReader = NoReader
  /\ metricsReader = NoReader
  /\ metrics = InitialMetrics
  /\ isConnected = FALSE

HookIdle ==
  /\ TelIdle
  /\ hookScript = "generated"
  /\ jqInstalled = TRUE
  /\ rawEvents = <<>>
  /\ sessionLog = <<>>
  /\ OtlpIdle

TailInit ==
  /\ file = <<>>
  /\ exists = FALSE
  /\ shrinks = 0
  /\ below = FALSE
  /\ logPath = NoPath
  /\ isOpen = FALSE
  /\ fileWatcher = FALSE
  /\ fileSize = 0
  /\ pending = 0
  /\ emitted = <<>>
  /\ raised = NoError
  /\ opens = 0
  /\ last = Step("new", "none", 0, 0, 0)

Init == TailInit /\ AppIdle /\ HookIdle

\* the producer appends one byte; a watcher queues a change notification
AppendByte(c) ==
  /\ Len(file) < MaxFile
  /\ file' = Append(file, c)
  /\ exists' = TRUE
  /\ pending' = IF fileWatcher /\ pending < MaxPending
                THEN pending + 1 ELSE pending
  /\ last' = Step("append", "none", 0, 0, 0)
  /\ UNCHANGED <<shrinks, below, readerVars, emitted, raised, opens>>
  /\ UNCHANGED <<dirVars, appVars, hookVars>>

\* fs.watch reports a change although the file did not grow
SpuriousChange ==
  /\ fileWatcher
  /\ pending < MaxPending
  /\ pending' = pending + 1
  /\ last' = Step("notify", "none", 0, 0, 0)
  /\ UNCHANGED <<file, exists, shrinks, below, readerVars, emitted, raised,
                 opens>>
  /\ UNCHANGED <<dirVars, appVars, hookVars>>

\* an openLog that assigns logPath before it tests isOpen
OpenLogGuardLate(path) ==
  /\ logPath' = path
  /\ raised' = AlreadyOpen
  /\ last' = Step("openLog", "guard", 0, 0, 0)
  /\ UNCHANGED <<file, exists, shrinks, below, isOpen, fileWatcher, fileSize,
                 pending, emitted, opens>>

\* openLog(path) on a reader that is already open
OpenLogGuard(path) ==
  /\ raised' = AlreadyOpen
  /\ last' = Step("openLog", "guard", 0, 0, 0)
  /\ UNCHANGED <<file, exists, shrinks, below, readerVars, pending, emitted,
                 opens>>

\* an openLog that replays the file and does not record its size
OpenLogExistingNoCursor(path, mid) ==
  /\ below' = FALSE
  /\ file' = file \o mid
  /\ logPath' = path
  /\ isOpen' = TRUE
  /\ emitted' = Append(HandleLines(<<>>, FilterLines(file')), OpenSignal)
  /\ fileWatcher' = TRUE
  /\ raised' = NoError
  /\ opens' = Min(opens + 1, 2)
  /\ last' = Step("openLog", "ok", 0, Len(file), Len(file'))
  /\ UNCHANGED <<exists, shrinks, pending, fileSize>>

\* openLog(path) on an existing file; the producer appends mid between
\* statSync and readFileSync
OpenLogExisting(path, mid) ==
  /\ below' = FALSE
  /\ file' = file \o mid
  /\ logPath' = path
  /\ isOpen' = TRUE
  /\ fileSize' = Len(file)
  /\ emitted' = Append(HandleLines(<<>>, FilterLines(file')), OpenSignal)
  /\ fileWatcher' = TRUE
  /\ raised' = NoError
  /\ opens' = Min(opens + 1, 2)
  /\ last' = Step("openLog", "ok", 0, Len(file), Len(file'))
  /\ UNCHANGED <<exists, shrinks, pending>>

\* openLog(path) on a missing file: fs.watch throws, the catch block resets
\* isOpen, emits 'error' and rethrows
OpenLogMissing(path) ==
  /\ logPath' = path
  /\ isOpen' = FALSE
  /\ emitted' = <<ErrorSignal>>
  /\ raised' = ENOENT
  /\ last' = Step("openLog", "failed", 0, 0, 0)
  /\ UNCHANGED <<file, exists, shrinks, below, fileWatcher, fileSize, pending,
                 opens>>

OpenLog(path, mid) ==
  /\ Len(file) + Len(mid) <= MaxFile
  /\ IF isOpen
     THEN mid = <<>> /\ OpenLogGuard(path)
     ELSE IF ExistsSync(path)
          THEN OpenLogExisting(path, mid)
          ELSE mid = <<>> /\ OpenLogMissing(path)
  /\ UNCHANGED <<dirVars, appVars, hookVars>>

\* readNewContent(); io is what the file system does to its calls and got
\* the number of bytes readSync returns
ReadNewContent(io, got) ==
  IF logPath = NoPath \/ ~ExistsSync(logPath) \/ io = "missing"
  THEN /\ got = 0
       /\ io \in {"ok", "missing"}
       /\ last' = Step("readNewContent", "absent", fileSize, 0, 0)
       /\ UNCHANGED <<readerVars, emitted>>
  ELSE IF io \in {"statFail", "readFail"}
  THEN /\ got = 0
       /\ fileSize' = CursorOnThrow(io, fileSize, Len(file))
       /\ last' = Step("readNewContent", "threw", fileSize, 0, 0)
       /\ UNCHANGED <<logPath, isOpen, fileWatcher, emitted>>
  ELSE LET newSize == Len(file)
           want == newSize - fileSize
       IN IF newSize > fileSize
          THEN /\ IF io = "short" THEN got < want ELSE got = want
               /\ emitted' = HandleLines(emitted,
                     FilterLines(ReadBuffer(file, fileSize, want, got)))
               /\ fileSize' = NextCursor(fileSize, newSize, got)
               /\ last' = Step("readNewContent", io, fileSize, want, got)
               /\ UNCHANGED <<logPath, isOpen, fileWatcher>>
          ELSE /\ got = 0
               /\ io = "ok"
               /\ last' = Step("readNewContent", "nogrowth", fileSize, 0, 0)
               /\ UNCHANGED <<readerVars, emitted>>

\* the callback given to fs.watch
WatchCallback(eventType, io, got) ==
  /\ pending > 0
  /\ pending' = pending - 1
  /\ raised' = NoError
  /\ IF eventType = "change"
     THEN ReadNewContent(io, got)
     ELSE /\ io = "ok" /\ got = 0
          /\ last' = Step("rename", "none", 0, 0, 0)
          /\ UNCHANGED <<readerVars, emitted>>
  /\ UNCHANGED <<file, exists, shrinks, below, opens>>
  /\ UNCHANGED <<dirVars, appVars, hookVars>>

CloseStep ==
  Step("close", IF last.op = "close" THEN "again" ELSE
                IF opens = 0 /\ logPath = NoPath THEN "unopened"
                ELSE "none", 0, 0, 0)

\* a close that returns at once when there is no watcher
CloseEarlyReturn ==
  /\ below' = FALSE
  /\ IF fileWatcher
     THEN fileWatcher' = FALSE /\ isOpen' = FALSE /\ logPath' = NoPath
          /\ fileSize' = 0
     ELSE UNCHANGED readerVars
  /\ raised' = NoError
  /\ last' = CloseStep
  /\ UNCHANGED <<file, exists, shrinks, pending, emitted, opens>>
  /\ UNCHANGED <<dirVars, appVars, hookVars>>

\* a close that forgets to reset logPath
CloseKeepsPath ==
  /\ below' = FALSE
  /\ fileWatcher' = FALSE
  /\ isOpen' = FALSE
  /\ fileSize' = 0
  /\ raised' = NoError
  /\ last' = CloseStep
  /\ UNCHANGED <<file, exists, shrinks, logPath, pending, emitted, opens>>
  /\ UNCHANGED <<dirVars, appVars, hookVars>>

\* close()
Close ==
  /\ below' = FALSE
  /\ fileWatcher' = FALSE
  /\ isOpen' = FALSE
  /\ logPath' = NoPath
  /\ fileSize' = 0
  /\ raised' = NoError
  /\ last' = CloseStep
  /\ UNCHANGED <<file, exists, shrinks, pending, emitted, opens>>
  /\ UNCHANGED <<dirVars, appVars, hookVars>>

\* the file is truncated to n bytes (rotated, replaced)
Truncate(n) ==
  /\ exists
  /\ shrinks < MaxShrinks
  /\ n < Len(file)
  /\ shrinks' = shrinks + 1
  /\ below' = (below \/ (isOpen /\ n < fileSize))
  /\ file' = SubSeq(file, 1, n)
  /\ pending' = IF fileWatcher /\ pending < MaxPending
                THEN pending + 1 ELSE pending
  /\ last' = Step("truncate", "none", 0, 0, 0)
  /\ UNCHANGED <<exists, readerVars, emitted, raised, opens>>
  /\ UNCHANGED <<dirVars, appVars, hookVars>>

EventTypes == {"change", "rename"}
FullReads == {"ok", "missing", "statFail", "readFail"}
ShortReads == FullReads \cup {"short"}
MidAppends == {<<>>} \cup {<<c>> : c \in Alphabet}

Produce(chars) == \E c \in chars : AppendByte(c)
Open(mids) == \E path \in Paths, mid \in mids : OpenLog(path, mid)
Callback(ios) ==
  \E eventType \in EventTypes, io \in ios, got \in 0..MaxFile :
    WatchCallback(eventType, io, got)
Rotate == \E n \in 0..MaxFile : Truncate(n)

\* appends only, every read returns all the bytes it asked for
Next ==
  \/ Produce(Alphabet)
  \/ SpuriousChange
  \/ Open(MidAppends)
  \/ Callback(FullReads)
  \/ Close

Spec == Init /\ [][Next]_vars

\* as Spec, and readSync may return fewer bytes than it was asked for
NextShort ==
  \/ Produce(Alphabet)
  \/ SpuriousChange
  \/ Open(MidAppends)
  \/ Callback(ShortReads)
  \/ Close

ShortSpec == Init /\ [][NextShort]_vars

\* the file may also shrink; the producer writes lines of "a", no append
\* lands inside openLog and no call of the callback fails
NextRotate ==
  \/ Produce({"a", NL})
  \/ Open({<<>>})
  \/ Callback({"ok"})
  \/ Close
  \/ Rotate

RotateSpec == Init /\ [][NextRotate]_vars

\* ------------------------------------------------ the log directory
\* LogManager.isLogActive(getLogPath(s))
IsLogActive(lines, s) == lines[s] > 0

\* the Session record built from a file name and readMetadata
SessionRecord(s, m) == [sessionId |-> s, startTime |-> m[s]]

\* a cleanup that asks only whether the process is running
StaleSessionsAnyDead(lines, m, al) ==
  {s \in SessionIds : IsLogActive(lines, s) /\ ~al[s]}

\* the sessions cleanupStaleLogs deletes
StaleSessions(lines, m, al) ==
  {s \in SessionIds : IsLogActive(lines, s) /\ m[s] > 0 /\ ~al[s]}

\* the directory after cleanupStaleLogs: log and metadata of the stale
\* sessions are unlinked
CleanupStaleLogs(lines, m, al) ==
  LET stale == StaleSessions(lines, m, al)
  IN [lines |-> [s \in SessionIds |-> IF s \in stale THEN 0 ELSE lines[s]],
      meta |-> [s \in SessionIds |-> IF s \in stale THEN 0 ELSE m[s]]]

\* a discovery that takes every log file
DiscoverSessionsAnyLog(lines, m, al) ==
  {s \in SessionIds : IsLogActive(lines, s)}

\* the session ids discoverSessions returns
DiscoverSessions(lines, m, al) ==
  {s \in SessionIds : IsLogActive(lines, s) /\ (m[s] = 0 \/ al[s])}

\* a getLatestSession that sorts by ascending start time
LatestSessionsOldest(lines, m, al) ==
  LET found == DiscoverSessions(lines, m, al)
  IN IF found = {} THEN {NoSession}
     ELSE {SessionRecord(s, m) : s \in
             {x \in found : \A y \in found : m[x] <= m[y]}}

\* what getLatestSession may return; readdir fixes the order of equal times
LatestSessions(lines, m, al) ==
  LET found == DiscoverSessions(lines, m, al)
  IN IF found = {} THEN {NoSession}
     ELSE {SessionRecord(s, m) : s \in
             {x \in found : \A y \in found : m[y] <= m[x]}}

\* the events LogReader emits for lines from + 1 .. to of the log of session s
EventsOf(s, from, to) ==
  [i \in 1..(to - from) |-> [sessionId |-> s, line |-> from + i]]

\* LogReader.openLog: every existing line is emitted, the cursor is the size
LogReaderOpen(s, lines) ==
  [replay |-> EventsOf(s, 0, lines[s]),
   reader |-> [sessionId |-> s, cursor |-> lines[s]]]

\* LogReader.readNewContent: the lines beyond the cursor are emitted
LogReaderDelta(reader, lines) ==
  [delta |-> EventsOf(reader.sessionId, reader.cursor, lines[reader.sessionId]),
   reader |-> [reader EXCEPT !.cursor = lines[reader.sessionId]]]

\* the hook of session s, a child of the session's process, writes one
\* event to the log
HookAppend(s) ==
  /\ alive[s]
  /\ logLines[s] < MaxLines
  /\ logLines' = [logLines EXCEPT ![s] = @ + 1]
  /\ last' = Step("hookAppend", "none", 0, 0, 0)
  /\ UNCHANGED <<meta, alive, tailVars, hookVars, appVars>>

\* the producer of session s writes its metadata file, once
WriteMetadata(s, t) ==
  /\ meta[s] = 0
  /\ alive[s]
  /\ meta' = [meta EXCEPT ![s] = t]
  /\ last' = Step("writeMetadata", "none", 0, 0, 0)
  /\ UNCHANGED <<logLines, alive, tailVars, hookVars, appVars>>

\* the process of session s ends
ProcessExit(s) ==
  /\ alive[s]
  /\ alive' = [alive EXCEPT ![s] = FALSE]
  /\ last' = Step("processExit", "none", 0, 0, 0)
  /\ UNCHANGED <<logLines, meta, tailVars, hookVars, appVars>>

\* ------------------------------------------------ useEvents
\* a cleanup that lets the old reader go as it is
UseEventsCleanupKeepsReader(reader) ==
  [sessionId |-> reader.sessionId, cursor |-> reader.cursor,
   listeners |-> TRUE, isOpen |-> TRUE]

\* the cleanup of the useEvents effect: removeAllListeners, then close
UseEventsCleanup(reader) ==
  [sessionId |-> reader.sessionId, cursor |-> reader.cursor,
   listeners |-> FALSE, isOpen |-> FALSE]

\* the effect of useEvents for a changed logPath: the cleanup closes the old
\* reader, a new LogReader opens the log of session s, replays its lines
\* into events and reports 'open'; openLog on a missing file reports 'error'
UseEventsEffect(s, lines, evs) ==
  /\ closedReader' = IF hookReader # NoReader
                      THEN UseEventsCleanup(hookReader) ELSE closedReader
  /\ IF IsLogActive(lines, s)
     THEN /\ events' = evs \o LogReaderOpen(s, lines).replay
          /\ hookReader' = LogReaderOpen(s, lines).reader
          /\ connectionStatus' = "connected"
     ELSE /\ events' = evs
          /\ hookReader' = NoReader
          /\ connectionStatus' = "error"

\* ------------------------------------------------ useOtelMetrics
\* openLog of a telemetry reader on the file of session s: an existing file
\* is replayed and watched and 'open' is emitted; on a missing file fs.watch
\* throws, the reader is not open and openLog throws
OpenTelemetryFile(s, f) ==
  IF f[s] # NoFile
  THEN [reader |-> [sessionId |-> s, cursor |-> f[s]], replay |-> f[s],
        opened |-> TRUE, threw |-> FALSE]
  ELSE [reader |-> NoReader, replay |-> 0, opened |-> FALSE, threw |-> TRUE]

\* the 'event' listener of the log reader: n api_request events
CountRequests(m, n) == [m EXCEPT !.apiRequestCount = @ + n]

\* the 'metric' listener of the metrics reader, for the data points
\* from + 1 .. to of lines_of_code.count, whose values are cumulative
UpdateLines(m, from, to) ==
  IF to > from THEN [m EXCEPT !.linesAdded = to] ELSE m

\* an effect without the try around openLog: what the log reader throws
\* ends the effect before the metrics reader is made to open
UseOtelMetricsEffectNoCatch(s) ==
  LET l == OpenTelemetryFile(s, otelLogsFile)
      m == IF l.threw THEN OpenTelemetryFile(s, [x \in SessionIds |-> NoFile])
           ELSE OpenTelemetryFile(s, otelMetricsFile)
  IN /\ metrics.apiRequestCount + l.replay <= MaxCount
     /\ logReader' = l.reader
     /\ metricsReader' = m.reader
     /\ metrics' = UpdateLines(CountRequests(metrics, l.replay), 0, m.replay)
     /\ isConnected' = (isConnected \/ l.opened \/ m.opened)
     /\ UNCHANGED <<otelLogsFile, otelMetricsFile>>

\* the effect of useOtelMetrics for a changed sessionId: the cleanup closes
\* the old readers, new readers open the two telemetry files of session s,
\* each inside its own try, replay them into metrics and report 'open'
UseOtelMetricsEffect(s) ==
  LET l == OpenTelemetryFile(s, otelLogsFile)
      m == OpenTelemetryFile(s, otelMetricsFile)
  IN /\ metrics.apiRequestCount + l.replay <= MaxCount
     /\ logReader' = l.reader
     /\ metricsReader' = m.reader
     /\ metrics' = UpdateLines(CountRequests(metrics, l.replay), 0, m.replay)
     /\ isConnected' = (isConnected \/ l.opened \/ m.opened)
     /\ UNCHANGED <<otelLogsFile, otelMetricsFile>>

\* the records in the telemetry files of all sessions
RECURSIVE Records(_, _)
Records(f, S) ==
  IF S = {} THEN 0
  ELSE LET s == CHOOSE x \in S : TRUE
       IN (IF f[s] = NoFile THEN 0 ELSE f[s]) + Records(f, S \ {s})
TelemetryRecords ==
  Records(otelLogsFile, SessionIds) + Records(otelMetricsFile, SessionIds)

\* the collector of session s exports a batch to the logs file, which it
\* creates with its first write
CollectorWriteLogs(s) ==
  /\ TelemetryRecords < MaxTel
  /\ otelLogsFile' = [otelLogsFile EXCEPT ![s] = IF @ = NoFile THEN 1 ELSE @ + 1]
  /\ last' = Step("collectorLogs", "none", 0, 0, 0)
  /\ UNCHANGED <<otelMetricsFile, logReader, metricsReader, metrics,
                 isConnected, scriptVars, tailVars, dirVars, appVars>>

\* the collector of session s exports the counters to the metrics file
CollectorWriteMetrics(s) ==
  /\ TelemetryRecords < MaxTel
  /\ otelMetricsFile' =
       [otelMetricsFile EXCEPT ![s] = IF @ = NoFile THEN 1 ELSE @ + 1]
  /\ last' = Step("collectorMetrics", "none", 0, 0, 0)
  /\ UNCHANGED <<otelLogsFile, logReader, metricsReader, metrics,
                 isConnected, scriptVars, tailVars, dirVars, appVars>>

\* the change callback of the log reader of useOtelMetrics
OtelLogReaderCallback ==
  /\ logReader # NoReader
  /\ otelLogsFile[logReader.sessionId] > logReader.cursor
  /\ LET n == otelLogsFile[logReader.sessionId] - logReader.cursor
     IN /\ metrics.apiRequestCount + n <= MaxCount
        /\ metrics' = CountRequests(metrics, n)
        /\ last' = Step("otelLogCallback", logReader.sessionId, 0, 0, n)
  /\ logReader' =
       [logReader EXCEPT !.cursor = otelLogsFile[logReader.sessionId]]
  /\ UNCHANGED <<otelLogsFile, otelMetricsFile, metricsReader, isConnected,
                 scriptVars, tailVars, dirVars, appVars>>

\* the change callback of the metrics reader of useOtelMetrics
OtelMetricsReaderCallback ==
  /\ metricsReader # NoReader
  /\ otelMetricsFile[metricsReader.sessionId] > metricsReader.cursor
  /\ metrics' = UpdateLines(metrics, metricsReader.cursor,
                            otelMetricsFile[metricsReader.sessionId])
  /\ metricsReader' =
       [metricsReader EXCEPT !.cursor = otelMetricsFile[metricsReader.sessionId]]
  /\ last' = Step("otelMetricsCallback", metricsReader.sessionId, 0, 0,
                  otelMetricsFile[metricsReader.sessionId] - metricsReader.cursor)
  /\ UNCHANGED <<otelLogsFile, otelMetricsFile, logReader, isConnected,
                 scriptVars, tailVars, dirVars, appVars>>

\* App renders with session next and events evs: useEvents and
\* useOtelMetrics run their effects only when the session changed
Render(next, lines, evs) ==
  IF next.sessionId = session.sessionId
  THEN /\ events' = evs
       /\ UNCHANGED <<hookReader, connectionStatus, closedReader, telVars>>
  ELSE /\ UseEventsEffect(next.sessionId, lines, evs)
       /\ UseOtelMetricsEffect(next.sessionId)

\* the change callback of the LogReader of useEvents: reader.on('event')
\* appends every new line's event
HookReaderCallback ==
  /\ hookReader # NoReader
  /\ logLines[hookReader.sessionId] > hookReader.cursor
  /\ events' = events \o LogReaderDelta(hookReader, logLines).delta
  /\ hookReader' = LogReaderDelta(hookReader, logLines).reader
  /\ last' = Step("hookReaderCallback", hookReader.sessionId, 0, 0, 0)
  /\ UNCHANGED <<providedSessionId, mounted, session, pendingNewSession,
                 error, connectionStatus, closedReader, discovered, dirVars,
                 tailVars, hookVars>>

\* a change callback of the reader the cleanup let go, queued before or
\* after the cleanup: a closed LogReader reads nothing, and what a reader
\* emits reaches setEvents only through its listeners
ClosedReaderCallback ==
  /\ closedReader.sessionId # NoId
  /\ logLines[closedReader.sessionId] > closedReader.cursor
  /\ LET r == [sessionId |-> closedReader.sessionId,
               cursor |-> closedReader.cursor]
     IN IF closedReader.isOpen
        THEN /\ closedReader' =
                  [closedReader EXCEPT
                     !.cursor = LogReaderDelta(r, logLines).reader.cursor]
             /\ events' = IF closedReader.listeners
                          THEN events \o LogReaderDelta(r, logLines).delta
                          ELSE events
        ELSE UNCHANGED <<closedReader, events>>
  /\ last' = Step("closedReaderCallback", closedReader.sessionId, 0, 0, 0)
  /\ UNCHANGED <<providedSessionId, mounted, session, pendingNewSession,
                 error, connectionStatus, hookReader, discovered, dirVars,
                 tailVars, hookVars>>

\* ------------------------------------------------ App
NotFound == "not found or inactive"
NoneFound == "No active Claude Code sessions found"

\* the session a retry or the initialisation finds, or NoSession
FoundSessions(lines, m, al) ==
  IF providedSessionId # NoId
  THEN IF IsLogActive(lines, providedSessionId)
       THEN {SessionRecord(providedSessionId, m)}
       ELSE {NoSession}
  ELSE LatestSessions(lines, m, al)

\* the session initialisation effect: cleanupStaleLogs, then the provided or
\* the latest session, then watchForSessions
Mount ==
  /\ ~mounted
  /\ mounted' = TRUE
  /\ LET lines == CleanupStaleLogs(logLines, meta, alive).lines
         m == CleanupStaleLogs(logLines, meta, alive).meta
     IN /\ logLines' = lines
        /\ meta' = m
        /\ discovered' = IF providedSessionId = NoId
                         THEN DiscoverSessions(lines, m, alive)
                         ELSE discovered
        /\ \E found \in FoundSessions(lines, m, alive) :
             /\ session' = found
             /\ error' = IF found # NoSession THEN NoError
                         ELSE IF providedSessionId # NoId THEN NotFound
                         ELSE NoneFound
             /\ Render(found, lines, events)
  /\ last' = Step("mount", "none", 0, 0,
                  Cardinality(StaleSessions(logLines, meta, alive)))
  /\ UNCHANGED <<alive, providedSessionId, pendingNewSession, tailVars,
                 scriptVars>>

\* another monitor instance starts on the same log directory: its
\* initialisation runs cleanupStaleLogs
OtherMonitorCleanup ==
  /\ StaleSessions(logLines, meta, alive) # {}
  /\ logLines' = CleanupStaleLogs(logLines, meta, alive).lines
  /\ meta' = CleanupStaleLogs(logLines, meta, alive).meta
  /\ last' = Step("cleanupStaleLogs", "other", 0, 0,
                  Cardinality(StaleSessions(logLines, meta, alive)))
  /\ UNCHANGED <<alive, tailVars, hookVars, appVars>>

\* a callback that leaves the error as it is
ErrorAfterWatchKept(prev, err) == err

\* the error after the watch callback: setError(null) when nothing was attached
ErrorAfterWatch(prev, err) == IF prev = NoSession THEN NoError ELSE err

\* a callback that drops the candidate when the attached session is reported
PendingAfterWatchDrops(prev, new, pend) ==
  IF prev # NoSession /\ prev.sessionId # new.sessionId THEN new
  ELSE NoSession

\* the candidate after the watch callback: setPendingNewSession(newSession)
\* when another session than the attached one is reported
PendingAfterWatch(prev, new, pend) ==
  IF prev # NoSession /\ prev.sessionId # new.sessionId THEN new ELSE pend

\* an updater that takes every reported session
SessionUpdaterTakesNew(prev, new) == new

\* the updater the watch callback gives to setSession
SessionUpdater(prev, new) == IF prev = NoSession THEN new ELSE prev

FileNames == {"jsonl", "meta"}

\* the callback SessionDiscovery.watchForSessions gives to fs.watch, for a
\* file of session s, and with it the callback App gave to watchForSessions
SessionWatchCallback(eventType, s, ext) ==
  /\ mounted
  /\ IF ext = "jsonl" /\ eventType = "rename" /\ IsLogActive(logLines, s)
     THEN LET newSession == SessionRecord(s, meta)
              next == SessionUpdater(session, newSession)
          IN /\ session' = next
             /\ error' = ErrorAfterWatch(session, error)
             /\ pendingNewSession' =
                  PendingAfterWatch(session, newSession, pendingNewSession)
             /\ Render(next, logLines, events)
             /\ last' = Step("watchForSessions", s, 0, 0, 0)
     ELSE /\ last' = Step("watchForSessions", "none", 0, 0, 0)
          /\ UNCHANGED <<session, error, pendingNewSession, events,
                         hookReader, connectionStatus, closedReader,
                         telVars>>
  /\ UNCHANGED <<providedSessionId, mounted, discovered, dirVars, tailVars,
                 scriptVars>>

\* a switch that leaves the candidate where it is
SwitchToNewSessionKeepsPending ==
  /\ pendingNewSession # NoSession
  /\ session' = pendingNewSession
  /\ Render(pendingNewSession, logLines, <<>>)
  /\ last' = Step("switchToNewSession", "none", 0, 0, 0)
  /\ UNCHANGED <<providedSessionId, mounted, error, discovered,
                 pendingNewSession, dirVars, tailVars, scriptVars>>

\* switchToNewSession, key 's'
SwitchToNewSession ==
  /\ pendingNewSession # NoSession
  /\ session' = pendingNewSession
  /\ pendingNewSession' = NoSession
  /\ Render(pendingNewSession, logLines, <<>>)
  /\ last' = Step("switchToNewSession", "none", 0, 0, 0)
  /\ UNCHANGED <<providedSessionId, mounted, error, discovered, dirVars,
                 tailVars, scriptVars>>

\* an ignoreNewSession that clears the events as the switch does
IgnoreNewSessionClearsEvents ==
  /\ pendingNewSession # NoSession
  /\ pendingNewSession' = NoSession
  /\ events' = <<>>
  /\ last' = Step("ignoreNewSession", "none", 0, 0, 0)
  /\ UNCHANGED <<providedSessionId, mounted, session, error,
                 connectionStatus, hookReader, closedReader, discovered,
                 dirVars, tailVars, hookVars>>

\* ignoreNewSession, key 'i'
IgnoreNewSession ==
  /\ pendingNewSession # NoSession
  /\ pendingNewSession' = NoSession
  /\ last' = Step("ignoreNewSession", "none", 0, 0, 0)
  /\ UNCHANGED <<providedSessionId, mounted, session, error, events,
                 connectionStatus, hookReader, closedReader, discovered,
                 dirVars, tailVars, hookVars>>

\* retryConnection, key 'r' in the error state
RetryConnection ==
  /\ error # NoError
  /\ discovered' = IF providedSessionId = NoId
                   THEN DiscoverSessions(logLines, meta, alive)
                   ELSE discovered
  /\ \E found \in FoundSessions(logLines, meta, alive) :
       /\ session' = IF found # NoSession THEN found ELSE session
       /\ error' = IF found # NoSession THEN NoError
                   ELSE IF providedSessionId # NoId THEN NotFound
                   ELSE NoneFound
       /\ Render(IF found # NoSession THEN found ELSE session,
                 logLines, events)
  /\ last' = Step("retryConnection", "none", 0, 0, 0)
  /\ UNCHANGED <<providedSessionId, mounted, pendingNewSession, dirVars,
                 tailVars, scriptVars>>

\* the sessionId argument of the command line, or none
ProvidedIds == {"s1", NoId}

AppInit ==
  /\ TailInit
  /\ HookIdle
  /\ logLines = [s \in SessionIds |-> 0]
  /\ meta = [s \in SessionIds |-> 0]
  /\ alive = [s \in SessionIds |-> TRUE]
  /\ providedSessionId \in ProvidedIds
  /\ mounted = FALSE
  /\ session = NoSession
  /\ pendingNewSession = NoSession
  /\ error = NoError
  /\ events = <<>>
  /\ connectionStatus = "disconnected"
  /\ hookReader = NoReader
  /\ closedReader = NoClosedReader
  /\ discovered = {}

Producer ==
  \/ \E s \in SessionIds : HookAppend(s)
  \/ \E s \in SessionIds, t \in 1..MaxStart : WriteMetadata(s, t)
  \/ \E s \in SessionIds : ProcessExit(s)

SessionWatch ==
  \E eventType \in EventTypes, s \in SessionIds, ext \in FileNames :
    SessionWatchCallback(eventType, s, ext)

AppNext ==
  \/ Producer
  \/ Mount
  \/ SessionWatch
  \/ HookReaderCallback
  \/ ClosedReaderCallback
  \/ OtherMonitorCleanup
  \/ SwitchToNewSession
  \/ IgnoreNewSession
  \/ RetryConnection

AppSpec == AppInit /\ [][AppNext]_vars

\* the App component with the collectors of the sessions writing their
\* telemetry files
Collector ==
  \/ \E s \in SessionIds : CollectorWriteLogs(s)
  \/ \E s \in SessionIds : CollectorWriteMetrics(s)

TelNext ==
  \/ \E s \in SessionIds : HookAppend(s)
  \/ Collector
  \/ Mount
  \/ SessionWatch
  \/ HookReaderCallback
  \/ OtelLogReaderCallback
  \/ OtelMetricsReaderCallback
  \/ SwitchToNewSession
  \/ IgnoreNewSession

TelSpec == Init /\ [][TelNext]_vars

\* ------------------------------------------------ the hook script
Scripts == {"generated", "example"}
HookEventNames == {"PreToolUse", "PostToolUse", "Stop"}
Responses == {"ok", "failed"}
Null == "null"
Durations == {Null, "7ms"}

\* eventType of the jq filter: PostToolUse becomes ToolUse
EventType(name) == IF name = "PostToolUse" THEN "ToolUse" ELSE name

\* a line of the session log is a record of the fields below; a field that
\* is not in the line is Null, 0 for the tool input
\* the jq filter of generateHookScript: the fields are renamed, duration
\* is copied
TransformGenerated(raw) ==
  [eventType |-> EventType(raw.hook_event_name), hook_event_name |-> Null,
   toolInput |-> raw.tool_input, tool_input |-> 0,
   toolResult |-> raw.tool_response, tool_response |-> Null,
   duration |-> raw.duration]

\* the jq filter of claude-companion-hook.sh: the object it builds has no
\* duration field
TransformExample(raw) ==
  [eventType |-> EventType(raw.hook_event_name), hook_event_name |-> Null,
   toolInput |-> raw.tool_input, tool_input |-> 0,
   toolResult |-> raw.tool_response, tool_response |-> Null,
   duration |-> Null]

\* ENRICHED_EVENT without jq: the original event
Original(raw) ==
  [eventType |-> Null, hook_event_name |-> raw.hook_event_name,
   toolInput |-> 0, tool_input |-> raw.tool_input,
   toolResult |-> Null, tool_response |-> raw.tool_response,
   duration |-> raw.duration]

\* the lines one run of the hook script appends to the session log
EnrichedEvent(script, jq, raw) ==
  IF jq
  THEN IF raw.hook_event_name = "PreToolUse" THEN <<>>
       ELSE IF script = "generated" THEN <<TransformGenerated(raw)>>
       ELSE <<TransformExample(raw)>>
  ELSE <<Original(raw)>>

\* the tool invocations Claude Code has started, and those it has finished
Started ==
  {i \in 1..Len(rawEvents) : rawEvents[i].hook_event_name = "PreToolUse"}
Finished ==
  {i \in 1..Len(rawEvents) : rawEvents[i].hook_event_name = "PostToolUse"}

\* the stdin record of hook event name for Claude Code's next step: the
\* tool input names the invocation
RawRecord(name, response, duration) ==
  [hook_event_name |-> name,
   tool_input |-> IF name = "PreToolUse" THEN Cardinality(Started) + 1
                  ELSE IF name = "PostToolUse" THEN Cardinality(Started)
                  ELSE 0,
   tool_response |-> IF name = "PostToolUse" THEN response ELSE Null,
   duration |-> IF name = "PostToolUse" THEN duration ELSE Null]

\* Claude Code runs the hook script for one hook event: before a tool
\* runs, after it ran, or when the agent stops
RunHook(name, response, duration) ==
  /\ Len(rawEvents) < MaxRaw
  /\ CASE name = "PreToolUse" -> Cardinality(Started) = Cardinality(Finished)
       [] name = "PostToolUse" -> Cardinality(Started) > Cardinality(Finished)
       [] OTHER -> Cardinality(Started) = Cardinality(Finished)
  /\ LET raw == RawRecord(name, response, duration)
     IN /\ rawEvents' = Append(rawEvents, raw)
        /\ sessionLog' =
             sessionLog \o EnrichedEvent(hookScript, jqInstalled, raw)
  /\ last' = Step("hook", name, 0, 0, 0)
  /\ UNCHANGED <<hookScript, jqInstalled, otlpVars, telVars, tailVars,
                 dirVars, appVars>>

HookInit ==
  /\ TailInit
  /\ AppIdle
  /\ TelIdle
  /\ hookScript \in Scripts
  /\ jqInstalled \in BOOLEAN
  /\ rawEvents = <<>>
  /\ sessionLog = <<>>
  /\ OtlpIdle

HookNext ==
  \E name \in HookEventNames, response \in Responses, duration \in Durations :
    RunHook(name, response, duration)

HookSpec == HookInit /\ [][HookNext]_vars

\* ------------------------------------------------ OTLP log lines
ApiRequest == "claude_code.api_request"
ToolResult == "claude_code.tool_result"
\* body.stringValue of a log record: two of the recognised names, a name
\* transformToHookEvent does not know, and Null for a record without body
Bodies == {ApiRequest, ToolResult, "other.event", Null}
\* timeUnixNano is a decimal string or something BigInt() rejects
Times == {"1", "x"}
\* the attribute tool_parameters: absent, a JSON text, or another string
Parameters == {Null, "{}", "{"}
\* the resource attribute session.id: absent, empty, or the id of a session
SessionAttributes == {Null, "", "sA"}
\* the session the reader was constructed for
ReaderSession == "sR"

\* the log records a line is made of
OtlpRecords ==
  {r \in [body : Bodies, timeUnixNano : Times, tool_parameters : Parameters] :
     /\ r.tool_parameters # Null => r.body = ToolResult
     /\ r.timeUnixNano = "x" => r.body = ApiRequest}

RECURSIVE SeqsUpTo(_, _)
SeqsUpTo(S, n) ==
  IF n = 0 THEN {<<>>}
  ELSE LET shorter == SeqsUpTo(S, n - 1)
       IN shorter \cup {Append(q, x) : q \in shorter, x \in S}

\* the lines of an OTLP logs file: one batch of records under one resource,
\* or a line JSON.parse rejects
OtlpLines ==
  {[json |-> TRUE, session |-> a, records |-> rs] :
     a \in SessionAttributes, rs \in SeqsUpTo(OtlpRecords, MaxRecords)}
    \cup {[json |-> FALSE, session |-> Null, records |-> <<>>]}

Threw == "threw"

\* nanoToDate: BigInt(nanoStr) throws on a string that is no integer
NanoToDate(nanoStr) == IF nanoStr = "1" THEN "date" ELSE Threw

\* parseOTLPLog: one parsed log per record; threw when the timestamp of a
\* record cannot be converted
ParseOTLPLog(payload) ==
  [threw |-> \E i \in 1..Len(payload.records) :
               NanoToDate(payload.records[i].timeUnixNano) = Threw,
   logs |-> [i \in 1..Len(payload.records) |->
               [record |-> i,
                eventName |-> IF payload.records[i].body \in {Null, ""}
                              THEN "unknown" ELSE payload.records[i].body,
                sessionId |-> payload.session,
                tool_parameters |-> payload.records[i].tool_parameters]]]

\* JSON.parse or parseOTLPLog throws on the line
Malformed(line) == ~line.json \/ ParseOTLPLog(line).threw

\* parseOTLPLogLine: whatever JSON.parse or parseOTLPLog throws is caught
\* and an empty list is returned
ParseOTLPLogLine(line) ==
  IF Malformed(line) THEN <<>> ELSE ParseOTLPLog(line).logs

\* a reader that stamps every event with its own session
EventSessionIdOwn(sessionId, own) == own

\* log.sessionId || this.sessionId
EventSessionId(sessionId, own) ==
  IF sessionId \notin {Null, ""} THEN sessionId ELSE own

\* a switch whose default case emits an event of type Unknown
EventTypeOfDefaulting(eventName) ==
  CASE eventName = ApiRequest -> "OTelAPIRequest"
    [] eventName = ToolResult -> "OTelToolResult"
    [] OTHER -> "Unknown"

\* the switch of transformToHookEvent: Null stands for return null
EventTypeOf(eventName) ==
  CASE eventName = ApiRequest -> "OTelAPIRequest"
    [] eventName = ToolResult -> "OTelToolResult"
    [] OTHER -> Null

\* transformToHookEvent: the event of a parsed log; its eventType is Null
\* for return null and Threw when JSON.parse rejects tool_parameters
TransformToHookEvent(log, own) ==
  [eventType |-> IF log.eventName = ToolResult /\ log.tool_parameters = "{"
                 THEN Threw ELSE EventTypeOf(log.eventName),
   record |-> log.record,
   sessionId |-> EventSessionId(log.sessionId, own)]

\* a handleLine without try and catch around its loop
RECURSIVE EmitLogsNoCatch(_, _, _, _)
EmitLogsNoCatch(logs, i, own, out) ==
  IF i > Len(logs)
  THEN [events |-> out, parseErrors |-> 0, raised |-> NoError]
  ELSE LET event == TransformToHookEvent(logs[i], own)
       IN IF event.eventType = Threw
          THEN [events |-> out, parseErrors |-> 0, raised |-> Threw]
          ELSE IF event.eventType = Null
          THEN EmitLogsNoCatch(logs, i + 1, own, out)
          ELSE EmitLogsNoCatch(logs, i + 1, own, Append(out, event))

\* the loop of handleLine over the parsed logs, from log i on: an event is
\* emitted unless transformToHookEvent returned null; what it throws ends
\* the loop and is emitted as 'parse-error'
RECURSIVE EmitLogs(_, _, _, _)
EmitLogs(logs, i, own, out) ==
  IF i > Len(logs)
  THEN [events |-> out, parseErrors |-> 0, raised |-> NoError]
  ELSE LET event == TransformToHookEvent(logs[i], own)
       IN IF event.eventType = Threw
          THEN [events |-> out, parseErrors |-> 1, raised |-> NoError]
          ELSE IF event.eventType = Null
          THEN EmitLogs(logs, i + 1, own, out)
          ELSE EmitLogs(logs, i + 1, own, Append(out, event))

\* handleLine of a non-blank line: the signals it emits
HandleOtlpLine(line, own) == EmitLogs(ParseOTLPLogLine(line), 1, own, <<>>)

\* the reader hands the next line of the file to handleLine
ReadOtlpLine(line) ==
  /\ otelLine' = line
  /\ otelEvents' = HandleOtlpLine(line, ReaderSession).events
  /\ otelParseErrors' = HandleOtlpLine(line, ReaderSession).parseErrors
  /\ otelRaised' = HandleOtlpLine(line, ReaderSession).raised
  /\ otelMalformedSeen' =
       (otelMalformedSeen \/ (last.op = "handleLine" /\ Malformed(otelLine)))
  /\ last' = Step("handleLine", "none", 0, 0, 0)
  /\ UNCHANGED <<hookScript, jqInstalled, rawEvents, sessionLog, telVars,
                 tailVars, dirVars, appVars>>

OtlpNext == \E line \in OtlpLines : ReadOtlpLine(line)

OtlpSpec == Init /\ [][OtlpNext]_vars

TypeOK ==
  /\ Len(file) <= MaxFile
  /\ logPath \in Paths \cup {NoPath}
  /\ fileSize \in 0..MaxFile
  /\ pending \in 0..MaxPending
  /\ fileWatcher => isOpen /\ logPath = LogPath

\* ------------------------------------------------ what the claims speak of
\* the lines handed to handleLine since the reader was opened, in order
EmittedLines ==
  LET ls == SelectSeq(emitted, LAMBDA e : e.kind = "line")
  IN [i \in 1..Len(ls) |-> ls[i].text]

NLCount(f) == Cardinality({i \in 1..Len(f) : f[i] = NL})

\* the position of the k-th newline of f; 0 and Len(f) + 1 close the ends
Boundary(f, k) ==
  IF k = 0 THEN 0
  ELSE IF k > NLCount(f) THEN Len(f) + 1
  ELSE CHOOSE i \in 1..Len(f) :
         f[i] = NL /\ Cardinality({j \in 1..i : f[j] = NL}) = k

\* the pieces of f between newlines; the last one is not terminated
Segments(f) ==
  [k \in 1..(NLCount(f) + 1) |->
     SubSeq(f, Boundary(f, k - 1) + 1, Boundary(f, k) - 1)]

\* the newline-terminated lines of f
TerminatedLines(f) == SubSeq(Segments(f), 1, NLCount(f))

HasText(l) == \E i \in 1..Len(l) : l[i] \notin {SP, NL}

Occurrences(l, ls) == Cardinality({i \in 1..Len(ls) : ls[i] = l})

RECURSIVE Join(_)
Join(ls) == IF ls = <<>> THEN <<>> ELSE Head(ls) \o <<NL>> \o Join(Tail(ls))

\* no notification is queued and the cursor is at the end of the file
CaughtUp == isOpen /\ pending = 0 /\ fileSize = Len(file)

\* C1: each newline-terminated line of the file (blank lines aside) is handed
\* to the consumer exactly once: never more often than the file holds it (the
\* unterminated fragment at the end counted in), and no less often than it
\* occurs as a terminated line once the reader has caught up.
C1_ExactlyOnce ==
  LET T == SelectSeq(TerminatedLines(file), HasText)
  IN isOpen =>
       \A i \in 1..Len(T) :
         /\ Occurrences(T[i], EmittedLines) <= Occurrences(T[i], Segments(file))
         /\ CaughtUp => Occurrences(T[i], EmittedLines) >= Occurrences(T[i], T)

\* C2: once the reader has caught up, the emitted lines re-joined with newline
\* are the file's content without its trailing unterminated fragment (blank
\* lines aside), in byte order.
C2_DeltaReadCorrect ==
  CaughtUp =>
    Join(EmittedLines) = Join(SelectSeq(TerminatedLines(file), HasText))

\* C3: a change callback that finds the file grown advances the cursor by the
\* number of bytes readSync returned, so that bytes it did not read stay
\* beyond the cursor.
C3_CursorAdvancesByBytesRead ==
  (last.op = "readNewContent" /\ last.want > 0) =>
     fileSize = last.from + last.got

\* C4: the cursor never decreases while the reader is open, whatever the
\* callbacks find in the file, and it becomes smaller only by close.
C4_CursorMonotone ==
  [][/\ (isOpen /\ isOpen') => fileSize' >= fileSize
     /\ fileSize' < fileSize => last'.op = "close"]_vars

\* the file has shrunk below the cursor of an open reader and a callback ran
C4_Witness ==
  /\ isOpen
  /\ shrinks > 0
  /\ Len(file) < fileSize
  /\ last.op = "readNewContent"

\* C5: openLog on an open reader throws 'File is already open' and leaves
\* path, cursor, watcher, open flag, queued notifications and emitted lines
\* as they were.
C5_AlreadyOpenRejected ==
  [][(isOpen /\ last'.op = "openLog") =>
        /\ raised' = AlreadyOpen
        /\ UNCHANGED <<readerVars, pending, emitted, file>>]_vars

\* an open reader with a cursor refused a second openLog
C5_Witness ==
  /\ last.op = "openLog"
  /\ raised = AlreadyOpen
  /\ isOpen /\ fileWatcher
  /\ fileSize > 0

\* the lines openLog is to hand over: the pieces between newlines for which
\* keep holds, in byte order, then 'open'
Replay(f, keep(_)) ==
  LET ls == SelectSeq(Segments(f), keep)
  IN [i \in 1..Len(ls) |-> LineSignal(ls[i])] \o <<OpenSignal>>

NonEmpty(l) == l # <<>>

\* C6 as stated: a successful openLog sets the cursor to the size it found
\* and hands every non-empty line of the file to the consumer before 'open'.
C6_ReplaysNonEmptyLines ==
  (last.op = "openLog" /\ last.io = "ok") =>
     /\ fileSize = last.want
     /\ emitted = Replay(file, NonEmpty)

\* C6 amended: a successful openLog, the first as well as one after close,
\* sets the cursor to the size it found and hands every line that has a
\* character other than white space to the consumer before 'open'.
C6_ReplaysLinesWithText ==
  (last.op = "openLog" /\ last.io = "ok") =>
     /\ fileSize = last.want
     /\ last.got = Len(file)
     /\ emitted = Replay(file, HasText)
     /\ isOpen /\ fileWatcher /\ logPath = LogPath /\ raised = NoError

\* a reader opened again after close replayed a file that holds lines with
\* text and a line without
C6_Witness ==
  /\ last.op = "openLog" /\ last.io = "ok"
  /\ opens = 2
  /\ Len(emitted) >= 2
  /\ \E k \in 1..Len(Segments(file)) : ~HasText(Segments(file)[k])
  /\ fileSize > 0

\* C7: close raises nothing and leaves no watcher, the open flag false, the
\* path null and the cursor 0, also when it is called twice in a row or on a
\* reader that was never opened or whose openLog failed.
C7_CloseIdempotent ==
  /\ last.op = "close" =>
       /\ raised = NoError
       /\ ~fileWatcher /\ ~isOpen /\ logPath = NoPath /\ fileSize = 0
  /\ (fileWatcher => isOpen)

\* close was called again on a reader that had been opened and closed
C7_Witness ==
  /\ last.op = "close" /\ last.io = "again"
  /\ opens > 0

\* C8: a change callback that runs on a reader that is not open (closed, with
\* notifications still queued) emits nothing, raises nothing and leaves path,
\* cursor, watcher and open flag alone.
C8_CallbackAfterCloseNoOp ==
  [][(~isOpen /\ last'.op \in {"readNewContent", "rename"}) =>
        /\ raised' = NoError
        /\ UNCHANGED <<readerVars, emitted>>]_vars

\* a queued change callback ran after close on a file that holds text
C8_Witness ==
  /\ last.op = "readNewContent"
  /\ ~isOpen /\ logPath = NoPath
  /\ opens > 0
  /\ Len(file) > 0 /\ HasText(file)

\* C9: a change callback whose stat or read fails, or that finds the file
\* missing, raises nothing, emits nothing and leaves the reader and the file
\* as they were, so that the next callback starts from the same cursor.
C9_TransientFailureNoOp ==
  [][(last'.op = "readNewContent" /\ last'.io \in {"threw", "absent"}) =>
        /\ raised' = NoError
        /\ UNCHANGED <<readerVars, emitted, file>>]_vars

\* a callback failed while bytes with text were waiting beyond the cursor
C9_Witness ==
  /\ last.op = "readNewContent" /\ last.io = "threw"
  /\ isOpen
  /\ Len(file) > fileSize
  /\ HasText(SubSeq(file, fileSize + 1, Len(file)))

\* C10: while a session is attached, a session-watch callback that reports
\* another session records it as the pending candidate, one that reports the
\* attached session records nothing, and both leave the attached session,
\* its log reader, the connection status and the events as they were.
C10_WatchKeepsAttachedSession ==
  [][(session # NoSession /\ last'.op = "watchForSessions"
        /\ last'.io # "none") =>
        /\ UNCHANGED <<session, hookReader, events, connectionStatus>>
        /\ pendingNewSession' =
             IF last'.io # session.sessionId
             THEN SessionRecord(last'.io, meta)
             ELSE pendingNewSession]_vars

\* a session with events is attached and the watch callback has just
\* reported another session, which is now pending
C10_Witness ==
  /\ last.op = "watchForSessions"
  /\ session # NoSession
  /\ hookReader.sessionId = session.sessionId
  /\ Len(events) > 0
  /\ pendingNewSession # NoSession
  /\ pendingNewSession.sessionId = last.io
  /\ pendingNewSession.sessionId # session.sessionId

\* the logs that are active after a step: the file is there and it has no
\* readable metadata or the process its metadata names is running
ActiveAfter ==
  {s \in SessionIds : logLines'[s] > 0 /\ (meta'[s] = 0 \/ alive'[s])}

C12_IgnoreKeepsEverythingElse ==
  [][last'.op = "ignoreNewSession" =>
       /\ pendingNewSession # NoSession
       /\ pendingNewSession' = NoSession
       /\ UNCHANGED <<session, hookReader, closedReader, events,
                      connectionStatus, error>>]_vars

\* a candidate was ignored while a session with events is attached
C12_Witness ==
  /\ last.op = "ignoreNewSession"
  /\ pendingNewSession = NoSession
  /\ session # NoSession
  /\ hookReader.sessionId = session.sessionId
  /\ Len(events) > 0

\* C13: a mounted monitor without a session shows an error and has no
\* candidate; the first session the watch callback reports is attached, no
\* candidate is set and the error is cleared.
C13_FirstReportedSessionAttaches ==
  [][/\ (mounted' /\ session' = NoSession =>
          error' \in {NotFound, NoneFound} /\ pendingNewSession' = NoSession)
     /\ (session = NoSession /\ last'.op = "watchForSessions"
           /\ last'.io # "none" =>
          /\ error # NoError
          /\ session' = SessionRecord(last'.io, meta)
          /\ pendingNewSession' = NoSession
          /\ error' = NoError)]_vars

\* discovery found nothing, and the session now attached is the one the
\* watch callback has just reported; the error is gone
C13_Witness ==
  /\ last.op = "watchForSessions"
  /\ providedSessionId = NoId
  /\ discovered = {}
  /\ session.sessionId = last.io
  /\ hookReader.sessionId = session.sessionId
  /\ error = NoError
  /\ pendingNewSession = NoSession

\* C14: while a candidate is pending a session stays attached, and only
\* switch and ignore clear the candidate or change the attached session.
C14_PendingUntilSwitchOrIgnore ==
  [][pendingNewSession # NoSession =>
       /\ session # NoSession
       /\ (last'.op \notin {"switchToNewSession", "ignoreNewSession"} =>
             /\ pendingNewSession' # NoSession
             /\ session' = session)]_vars

\* a candidate is pending and the watch callback has just reported the
\* attached session again
C14_Witness ==
  /\ last.op = "watchForSessions"
  /\ last.io = session.sessionId
  /\ pendingNewSession # NoSession
  /\ pendingNewSession.sessionId # session.sessionId

\* C15: discoverSessions returns the logs that have no readable metadata or
\* whose metadata names a running process, and no other.
C15_DiscoveryReturnsActiveLogs ==
  [][(last'.op \in {"mount", "retryConnection"} /\ providedSessionId = NoId)
       => /\ discovered' = ActiveAfter
          /\ \A s \in SessionIds :
               /\ (logLines'[s] > 0 /\ meta'[s] = 0 => s \in discovered')
               /\ (meta'[s] > 0 /\ ~alive'[s] => s \notin discovered')
               /\ (logLines'[s] = 0 => s \notin discovered')]_vars

\* a retry discovered a log without metadata and left out a log whose
\* metadata names a process that is gone
C15_Witness ==
  /\ last.op = "retryConnection"
  /\ providedSessionId = NoId
  /\ \E s \in discovered : meta[s] = 0
  /\ \E s \in SessionIds \ discovered :
       logLines[s] > 0 /\ meta[s] > 0 /\ ~alive[s]

\* C16: getLatestSession returns null when no session is active, and
\* otherwise an active session whose start time, 0 without metadata, no
\* other active session exceeds.
C16_LatestHasGreatestStartTime ==
  [][(last'.op \in {"mount", "retryConnection"} /\ providedSessionId = NoId)
       => IF ActiveAfter = {}
          THEN session' = NoSession /\ error' = NoneFound
          ELSE /\ session'.sessionId \in ActiveAfter
               /\ session'.startTime = meta'[session'.sessionId]
               /\ \A s \in ActiveAfter :
                    meta'[s] <= session'.startTime]_vars

\* two sessions were active and the one with the greater start time was
\* taken
C16_Witness ==
  /\ last.op \in {"mount", "retryConnection"}
  /\ providedSessionId = NoId
  /\ Cardinality(discovered) = 2
  /\ session.sessionId \in discovered
  /\ \E s \in discovered : meta[s] < session.startTime

\* C17: the session-watch callback reports a log only when it has no
\* readable metadata or its metadata names a running process.
C17_WatchReportsOnlyLiveSessions ==
  [][(last'.op = "watchForSessions" /\ last'.io # "none") =>
       (meta[last'.io] = 0 \/ alive[last'.io])]_vars

C19_CleanupSparesAttachedSession ==
  [][session # NoSession =>
       /\ (logLines[session.sessionId] > 0 =>
             logLines'[session.sessionId] > 0)
       /\ (meta[session.sessionId] > 0 =>
             meta'[session.sessionId] > 0)]_vars

\* the lines of the session log that belong to tool invocation k
ToolLines(k) ==
  {i \in 1..Len(sessionLog) :
     sessionLog[i].toolInput = k \/ sessionLog[i].tool_input = k}

\* C20: a tool invocation that has not finished has no line in the session
\* log, and a finished one has exactly one: a ToolUse event with the result
\* and the duration of the PostToolUse record.
C20_OneToolUsePerInvocation ==
  \A r \in 1..Len(rawEvents) :
    LET raw == rawEvents[r]
        k == raw.tool_input
        finished == \E j \in Finished : rawEvents[j].tool_input = k
    IN /\ (raw.hook_event_name = "PreToolUse" /\ ~finished =>
            ToolLines(k) = {})
       /\ (raw.hook_event_name = "PostToolUse" =>
            /\ Cardinality(ToolLines(k)) = 1
            /\ \A i \in ToolLines(k) :
                 /\ sessionLog[i].eventType = "ToolUse"
                 /\ sessionLog[i].toolInput = k
                 /\ sessionLog[i].toolResult = raw.tool_response
                 /\ sessionLog[i].duration = raw.duration)

\* the lines a step of the reader has handed over
NewLines ==
  {emitted'[i].text : i \in (Len(emitted) + 1)..Len(emitted')}

\* the newline-terminated lines of the file, as a set
WholeLines(f) == {TerminatedLines(f)[k] : k \in 1..NLCount(f)}

\* C27: a change callback hands over whole lines only: the bytes of a line
\* that is not yet terminated are held back until its newline has arrived.
C27_SplitLineEmittedWhole ==
  [][(last'.op = "readNewContent" /\ last'.io = "ok" /\ ~below) =>
       NewLines \subseteq WholeLines(file)]_vars

\* C28: after the file has been shorter than the cursor, a callback never
\* moves the cursor back, hands over nothing while the size does not exceed
\* the cursor, and when the file ends with a newline hands over whole lines
\* of the file only.
C28_ShrunkFileEmitsNothingCorrupt ==
  [][(last'.op = "readNewContent" /\ last'.io \in {"ok", "nogrowth"}
        /\ below) =>
       /\ fileSize' >= fileSize
       /\ (Len(file) <= fileSize => UNCHANGED <<fileSize, emitted>>)
       /\ (Len(file) > 0 /\ file[Len(file)] = NL =>
             NewLines \subseteq WholeLines(file))]_vars

\* C29: a candidate is pending only while a session is attached, and it is
\* another session than the attached one.
C29_PendingDiffersFromAttached ==
  pendingNewSession # NoSession =>
    /\ session # NoSession
    /\ pendingNewSession.sessionId # session.sessionId

\* after a switch the watch callback has reported the session that was
\* attached before, and it is the candidate now
C29_Witness ==
  /\ last.op = "watchForSessions"
  /\ closedReader.sessionId # NoId
  /\ pendingNewSession # NoSession
  /\ pendingNewSession.sessionId = last.io
  /\ pendingNewSession.sessionId = closedReader.sessionId
  /\ session # NoSession


\* ---- claims about OTLP lines
RecognisedNames == {ApiRequest, ToolResult}
Handled == last.op = "handleLine"
RecordName(r) == IF r.body \in {Null, ""} THEN "unknown" ELSE r.body
RecognisedRecord(i) == RecordName(otelLine.records[i]) \in RecognisedNames
RecognisedRecords ==
  SelectSeq([i \in 1..Len(otelLine.records) |-> i], RecognisedRecord)
EventRecords == [k \in 1..Len(otelEvents) |-> otelEvents[k].record]
BadParameters ==
  \E i \in 1..Len(otelLine.records) :
    /\ otelLine.records[i].body = ToolResult
    /\ otelLine.records[i].tool_parameters = "{"

\* C21: a line that is one JSON batch of log records yields one event for
\* each record of a recognised name, in record order, whatever the other
\* records of the batch contain
C21_OneEventPerRecord ==
  (Handled /\ otelLine.json) => EventRecords = RecognisedRecords

C23_HandleLineNeverRaises ==
  Handled =>
    /\ otelRaised = NoError
    /\ (Malformed(otelLine) => otelEvents = <<>>)
    /\ ((BadParameters /\ ~Malformed(otelLine)) => otelParseErrors = 1)
    /\ ((otelMalformedSeen /\ ~Malformed(otelLine) /\ ~BadParameters) =>
          /\ EventRecords = RecognisedRecords
          /\ otelParseErrors = 0)
C23_Witness ==
  /\ Handled
  /\ otelMalformedSeen
  /\ ~Malformed(otelLine)
  /\ otelParseErrors = 0
  /\ Len(otelEvents) = 2

\* C24: a record whose name is not recognised, a record without body
\* included, yields no event of any type and no parse-error signal
C24_UnknownNamesDropped ==
  Handled =>
    /\ \A k \in 1..Len(otelEvents) :
         /\ RecognisedRecord(otelEvents[k].record)
         /\ otelEvents[k].eventType \in {"OTelAPIRequest", "OTelToolResult"}
    /\ (otelParseErrors > 0 => BadParameters)
C24_Witness ==
  /\ Handled
  /\ Len(otelLine.records) = 2
  /\ otelLine.records[1].body = Null
  /\ otelLine.records[2].body = ApiRequest
  /\ EventRecords = <<2>>
  /\ otelParseErrors = 0


\* ---- claims about the sources of a session
InFile(n) == IF n = NoFile THEN 0 ELSE n
ReaderSteps == {"hookReaderCallback", "otelLogCallback", "otelMetricsCallback"}
Arrived ==
  CASE last'.op = "hookReaderCallback" ->
         logLines[hookReader.sessionId] - hookReader.cursor
    [] last'.op = "otelLogCallback" ->
         otelLogsFile[logReader.sessionId] - logReader.cursor
    [] last'.op = "otelMetricsCallback" ->
         otelMetricsFile[metricsReader.sessionId] - metricsReader.cursor
    [] OTHER -> 0

\* C25: whatever a reader of the attached session emits, of the hook log,
\* the telemetry log or the telemetry metrics log, is appended to the one
\* stream of events in the order of its arrival and carries the id of the
\* session
C25_AllSourcesInOneStream ==
  [][last'.op \in ReaderSteps =>
       /\ Len(events') = Len(events) + Arrived
       /\ SubSeq(events', 1, Len(events)) = events
       /\ \A k \in (Len(events) + 1)..Len(events') :
            events'[k].sessionId = session.sessionId]_vars

\* C26: when a session is attached, each telemetry file that exists gets
\* its reader whether or not the other file exists, the reader of the hook
\* log is opened on the session's log and reports connected, and no step of
\* a telemetry reader or collector touches the hook events, their reader,
\* the connection status or the error
C26_ReadersIndependent ==
  [][/\ session'.sessionId # session.sessionId =>
          LET s == session'.sessionId
          IN /\ otelLogsFile[s] # NoFile =>
                  logReader' # NoReader /\ logReader'.sessionId = s
             /\ otelMetricsFile[s] # NoFile =>
                  metricsReader' # NoReader /\ metricsReader'.sessionId = s
             /\ otelLogsFile[s] = NoFile => logReader' = NoReader
             /\ otelMetricsFile[s] = NoFile => metricsReader' = NoReader
             /\ IsLogActive(logLines', s) =>
                  /\ connectionStatus' = "connected"
                  /\ hookReader' = [sessionId |-> s, cursor |-> logLines'[s]]
     /\ last'.op \in {"otelLogCallback", "otelMetricsCallback",
                      "collectorLogs", "collectorMetrics"} =>
          UNCHANGED <<events, hookReader, connectionStatus, error, session>>
    ]_vars
C26_Witness ==
  /\ last.op \in {"mount", "watchForSessions", "switchToNewSession"}
  /\ session # NoSession
  /\ otelLogsFile[session.sessionId] = NoFile
  /\ otelMetricsFile[session.sessionId] # NoFile
  /\ logReader = NoReader
  /\ metricsReader # NoReader
  /\ metricsReader.sessionId = session.sessionId
  /\ hookReader # NoReader
  /\ hookReader.sessionId = session.sessionId
  /\ connectionStatus = "connected"
  /\ events # <<>>

\* C30: after switchToNewSession the summary holds what the telemetry files
\* of the new session hold and nothing else, and isConnected is true only
\* if one of the new session's telemetry files was opened
C30_SummaryOfNewSessionOnly ==
  [][last'.op = "switchToNewSession" =>
       LET s == session'.sessionId
       IN /\ metrics'.apiRequestCount = InFile(otelLogsFile[s])
          /\ metrics'.linesAdded = InFile(otelMetricsFile[s])
          /\ isConnected' =>
               otelLogsFile[s] # NoFile \/ otelMetricsFile[s] # NoFile]_vars

====
